---- MODULE Spec2Model ----
(***************************************************************************)
(* Model of nerve's generator module (src/agent/generator/mod.rs):         *)
(*   - Client::check_rate_limit, the classify-and-wait step applied to the *)
(*     error text of a failed chat call, with the two regular expressions  *)
(*     RETRY_TIME_PARSER and CONN_RESET_PARSER it uses;                    *)
(*   - factory / factory_embedder, the selection of a backend by name.     *)
(*                                                                         *)
(* Texts are sequences of one-character strings, so that the regular       *)
(* expressions, split_once('.') and the duration parser work on the        *)
(* characters the code sees.  A u64 is a sequence of decimal digits, most  *)
(* significant first and without leading zeros, because 2^64 - 1 lies      *)
(* outside the integers of the model checker; a Duration is a record       *)
(* [secs, nanos] as in std::time::Duration.                                *)
(*                                                                         *)
(* retry_time_str.parse::<DurationString>() is the FromStr implementation  *)
(* of the duration_string crate, a dependency whose source is outside the  *)
(* repository; DurationString_from_str follows that implementation.        *)
(***************************************************************************)
EXTENDS Integers, Sequences, FiniteSets, TLC

VARIABLES
    error,           \* the `error` argument of check_rate_limit
    pc,              \* "idle" | "ready" | "sleeping" | "returned" | "panicked"
    retry_time_str,  \* the string handed to the duration parser, <<>> if none
    slept,           \* the Duration handed to tokio::time::sleep, <<>> if none
    ret,             \* the value returned, <<>> while the call has not returned
    sleeps,          \* sleeps started by the current call
    attempt,         \* number of the current call
    prev,            \* <<ret, slept>> of the previous call, <<>> if none
    chats,           \* chat calls made so far
    chatsAtEntry,    \* chats when the current call was entered
    features,        \* cargo features the crate was built with
    fname,           \* the `name` argument of the last factory call
    fkind,           \* "none" | "factory" | "factory_embedder"
    fres,            \* result of the last factory call
    fnew             \* the client whose `new` the last factory call ran

rlvars == <<error, pc, retry_time_str, slept, ret, sleeps, attempt, prev,
            chats, chatsAtEntry>>
fvars == <<features, fname, fkind, fres, fnew>>
vars == <<error, pc, retry_time_str, slept, ret, sleeps, attempt, prev,
          chats, chatsAtEntry, features, fname, fkind, fres, fnew>>

None == <<>>
Some(x) == <<x>>

----------------------------------------------------------------------------
(* Bounds of the model                                                     *)

\* an error text is made of at most MaxPieces pieces
MaxPieces == 3
\* the caller hands the same error to check_rate_limit at most MaxCalls times
MaxCalls == 2

----------------------------------------------------------------------------
(* Characters and literals                                                 *)

NL == "\n"

TRY_AGAIN_IN == <<"t","r","y"," ","a","g","a","i","n"," ","i","n"," ">>
DOT_VISIT == <<"."," ","V","i","s","i","t">>
ONNECTION_RESET == <<"o","n","n","e","c","t","i","o","n"," ","r","e","s","e","t",
                     " ","b","y"," ","p","e","e","r">>

\* lit occurs in s at index i
IsAt(s, lit, i) ==
    /\ i >= 1
    /\ i + Len(lit) - 1 <= Len(s)
    /\ s[i] = lit[1]
    /\ \A k \in 2..Len(lit) : s[i + k - 1] = lit[k]

Max(S) == CHOOSE x \in S : \A y \in S : y <= x
Min(S) == CHOOSE x \in S : \A y \in S : x <= y

\* The lines of s: (?m) lets ^ match at the start of the text and after each
\* "\n", and `.` never matches "\n".
RECURSIVE Lines(_)
Lines(s) ==
    LET nl == {i \in 1..Len(s) : s[i] = NL}
    IN  IF nl = {} THEN <<s>>
        ELSE LET i == Min(nl)
             IN  <<SubSeq(s, 1, i - 1)>> \o Lines(SubSeq(s, i + 1, Len(s)))

----------------------------------------------------------------------------
(* The regular expressions                                                 *)

\* Matches of TRY_AGAIN_IN at p[1] (after a non-empty .+) and DOT_VISIT at
\* p[2] (after a non-empty group) within one line.
RetryMatches(l) ==
    LET tries  == {i \in 2..Len(l) : IsAt(l, TRY_AGAIN_IN, i)}
        visits == {j \in 2..Len(l) : IsAt(l, DOT_VISIT, j)}
    IN  {p \in tries \X visits : p[2] >= p[1] + Len(TRY_AGAIN_IN) + 1}

GreedyGroup(l, ms, i) ==
    SubSeq(l, i + Len(TRY_AGAIN_IN), Max({p[2] : p \in {q \in ms : q[1] = i}}) - 1)

MatchesGroup(l, ms) == GreedyGroup(l, ms, Max({p[1] : p \in ms}))

\* Capture group 1 of (?m)^.+try again in (.+)\. Visit.* on a line that
\* matches: both .+ are greedy, the first one is served first.
RetryGroup(l) == MatchesGroup(l, RetryMatches(l))

\* the first line of ls that the rate-limit expression matches, 0 if none
RECURSIVE FirstRetryLine(_, _)
FirstRetryLine(ls, n) ==
    IF n > Len(ls) THEN 0
    ELSE IF RetryMatches(ls[n]) # {} THEN n
    ELSE FirstRetryLine(ls, n + 1)

FirstRetryGroup(ls, n) == IF n = 0 THEN None ELSE Some(RetryGroup(ls[n]))

LinesRetryGroup(ls) == FirstRetryGroup(ls, FirstRetryLine(ls, 1))

\* RETRY_TIME_PARSER.captures_iter(error).next(): the leftmost match, that
\* is the first line that matches; None or Some(capture group 1).
RETRY_TIME_PARSER(s) == LinesRetryGroup(Lines(s))

LinesConnReset(ls) ==
    \E n \in 1..Len(ls) : \E i \in 2..Len(ls[n]) : IsAt(ls[n], ONNECTION_RESET, i)

\* .* in place of .+ : no character needed before the phrase
CONN_RESET_PARSER_NoPrefix(s) ==
    \E i \in 1..Len(s) : IsAt(s, ONNECTION_RESET, i)

\* CONN_RESET_PARSER.captures_iter(error).next().is_some():
\* (?m)^.+onnection reset by peer.*
CONN_RESET_PARSER(s) == LinesConnReset(Lines(s))

----------------------------------------------------------------------------
(* u64 and std::time::Duration                                             *)

Digits == {"0","1","2","3","4","5","6","7","8","9"}

DigitVal(c) ==
    CASE c = "0" -> 0 [] c = "1" -> 1 [] c = "2" -> 2 [] c = "3" -> 3
      [] c = "4" -> 4 [] c = "5" -> 5 [] c = "6" -> 6 [] c = "7" -> 7
      [] c = "8" -> 8 [] c = "9" -> 9

\* u64::MAX = 18446744073709551615
U64_MAX == <<1,8,4,4,6,7,4,4,0,7,3,7,0,9,5,5,1,6,1,5>>

\* drop leading zeros, keep at least one digit
Norm(d) ==
    LET nz == {i \in 1..Len(d) : d[i] # 0}
    IN  IF nz = {} THEN <<0>> ELSE SubSeq(d, Min(nz), Len(d))

Pad(d, n) == [k \in 1..n |-> IF k <= n - Len(d) THEN 0 ELSE d[k - (n - Len(d))]]

\* a <= b, for digit sequences without leading zeros
BigLE(a, b) ==
    \/ Len(a) < Len(b)
    \/ /\ Len(a) = Len(b)
       /\ LET df == {i \in 1..Len(a) : a[i] # b[i]}
          IN  df = {} \/ a[Min(df)] < b[Min(df)]

BigAdd(a, b) ==
    LET n == (IF Len(a) >= Len(b) THEN Len(a) ELSE Len(b)) + 1
        A == Pad(a, n)
        B == Pad(b, n)
        carry[k \in 1..(n + 1)] ==
            IF k = n + 1 THEN 0 ELSE (A[k] + B[k] + carry[k + 1]) \div 10
    IN  Norm([k \in 1..n |-> (A[k] + B[k] + carry[k + 1]) % 10])

\* a * m for a multiplier m below 10^8
BigMul(a, m) ==
    LET n == Len(a) + 9
        A == Pad(a, n)
        carry[k \in 1..(n + 1)] ==
            IF k = n + 1 THEN 0 ELSE (A[k] * m + carry[k + 1]) \div 10
    IN  Norm([k \in 1..n |-> (A[k] * m + carry[k + 1]) % 10])

\* a / 10^k and a % 10^k (k <= 9, so the remainder is a small integer)
BigDivPow10(a, k) == IF Len(a) <= k THEN <<0>> ELSE SubSeq(a, 1, Len(a) - k)

RECURSIVE ToInt(_)
ToInt(d) == IF d = <<>> THEN 0 ELSE 10 * ToInt(SubSeq(d, 1, Len(d) - 1)) + d[Len(d)]

BigModPow10(a, k) ==
    IF Len(a) <= k THEN ToInt(a) ELSE ToInt(SubSeq(a, Len(a) - k + 1, Len(a)))

\* u64::checked_add, u64::checked_mul: None on overflow
U64_checked_add(a, b) ==
    LET r == BigAdd(a, b) IN IF BigLE(r, U64_MAX) THEN Some(r) ELSE None

U64_checked_mul(a, m) ==
    LET r == BigMul(a, m) IN IF BigLE(r, U64_MAX) THEN Some(r) ELSE None

Duration(s, n) == [secs |-> s, nanos |-> n]

Duration_from_secs(secs) == Duration(secs, 0)
Duration_from_millis(ms) ==
    Duration(BigDivPow10(ms, 3), BigModPow10(ms, 3) * 1000000)
Duration_from_micros(us) ==
    Duration(BigDivPow10(us, 6), BigModPow10(us, 6) * 1000)
Duration_from_nanos(ns) ==
    Duration(BigDivPow10(ns, 9), BigModPow10(ns, 9))

\* Duration::checked_add: None when the seconds overflow u64
Duration_checked_add(a, b) ==
    LET s == U64_checked_add(a.secs, b.secs)
        n == a.nanos + b.nanos
    IN  IF s = None THEN None
        ELSE IF n >= 1000000000
             THEN LET s1 == U64_checked_add(s[1], <<1>>)
                  IN  IF s1 = None THEN None
                      ELSE Some(Duration(s1[1], n - 1000000000))
             ELSE Some(Duration(s[1], n))

\* Duration::from_secs(period).checked_mul(multiplier)
Duration_checked_mul(period, multiplier) ==
    LET s == U64_checked_mul(period, multiplier)
    IN  IF s = None THEN None ELSE Some(Duration_from_secs(s[1]))

----------------------------------------------------------------------------
(* <DurationString as FromStr>::from_str                                   *)

IsNumeric(c) == c \in Digits
IsWhitespace(c) == c \in {" ", "\t", "\n", "\r"}

NotWhitespace(c) == ~IsWhitespace(c)

\* str::parse::<u64>() of a string of numeric characters: None when the
\* string is empty or the number exceeds u64::MAX
ParseU64(p) ==
    IF p = <<>> THEN None
    ELSE LET v == Norm([k \in 1..Len(p) |-> DigitVal(p[k])])
         IN  IF BigLE(v, U64_MAX) THEN Some(v) ELSE None

\* the grouping loop: numeric characters go to the period of the last group,
\* the others to its format; a numeric character after a non-numeric one
\* opens a new group
RECURSIVE GroupDurations(_, _, _)
GroupDurations(d, i, gs) ==
    IF i > Len(d) THEN gs
    ELSE LET last == gs[Len(gs)]
             upd  == IF IsNumeric(d[i])
                     THEN <<Append(last[1], d[i]), last[2]>>
                     ELSE <<last[1], Append(last[2], d[i])>>
             gs1  == [gs EXCEPT ![Len(gs)] = upd]
             gs2  == IF i # Len(d) /\ ~IsNumeric(d[i]) /\ IsNumeric(d[i + 1])
                     THEN Append(gs1, <<<<>>, <<>>>>)
                     ELSE gs1
         IN  GroupDurations(d, i + 1, gs2)

\* the duration of one group, None on a format or overflow error
PeriodDuration(period, format) ==
    CASE format = <<"n","s">> -> Some(Duration_from_nanos(period))
      [] format = <<"u","s">> -> Some(Duration_from_micros(period))
      [] format = <<"m","s">> -> Some(Duration_from_millis(period))
      [] format = <<"s">> -> Some(Duration_from_secs(period))
      [] format = <<"m">> -> Duration_checked_mul(period, 60)
      [] format = <<"h">> -> Duration_checked_mul(period, 3600)
      [] format = <<"d">> -> Duration_checked_mul(period, 86400)
      [] format = <<"w">> -> Duration_checked_mul(period, 604800)
      [] format = <<"y">> -> Duration_checked_mul(period, 31556926)
      [] OTHER -> None

\* the loop adding the groups' durations up; None on the first error
RECURSIVE SumDurations(_, _, _)
SumDurations(gs, k, total) ==
    IF k > Len(gs) THEN Some(total)
    ELSE LET period == ParseU64(gs[k][1])
         IN  IF period = None THEN None
             ELSE LET pd == PeriodDuration(period[1], gs[k][2])
                  IN  IF pd = None THEN None
                      ELSE LET t == Duration_checked_add(total, pd[1])
                           IN  IF t = None THEN None
                               ELSE SumDurations(gs, k + 1, t[1])

\* retry_time_str.parse::<DurationString>(): None for Err, Some(duration)
DurationString_from_str(str) ==
    LET d == SelectSeq(str, NotWhitespace)
    IN  SumDurations(GroupDurations(d, 1, <<<<<<>>, <<>>>>>>), 1,
                     Duration_from_secs(<<0>>))

----------------------------------------------------------------------------
(* Client::check_rate_limit                                                *)

\* the decimals are left in
RetryTimeStr_NoTruncate(cap) == cap

\* rsplit_once in place of split_once: cut at the last '.'
RetryTimeStr_LastDot(cap) ==
    LET dots == {i \in 1..Len(cap) : cap[i] = "."}
    IN  IF dots # {}
        THEN SubSeq(cap, 1, Max(dots) - 1) \o <<"s">>
        ELSE cap

\* lines 89-100: the captured text, cut at its first '.' and closed with
\* an 's' when it contains a '.'
RetryTimeStr(cap) ==
    LET dots == {i \in 1..Len(cap) : cap[i] = "."}
    IN  IF dots # {}
        THEN SubSeq(cap, 1, Min(dots) - 1) \o <<"s">>
        ELSE cap

\* Duration::from_millis(1000), the margin added to the parsed retry time
RetryMargin == Duration_from_millis(<<1,0,0,0>>)

\* the margin left out
RateLimitSleep_NoMargin(retry_time) == Some(retry_time)

\* retry_time.checked_add(Duration::from_millis(1000)): None on overflow,
\* where the code unwraps
RateLimitSleep(retry_time) == Duration_checked_add(retry_time, RetryMargin)

\* 5 taken as milliseconds
ConnResetSleep_Millis == Duration_from_millis(<<5>>)

\* Duration::from_secs(5), the wait after a connection reset
ConnResetSleep == Duration_from_secs(<<5>>)

\* lines 108-113: the unwrap of the checked_add, then the sleep
SleepOrPanic(str, d) ==
    IF d = None
    THEN [do |-> "panic", str |-> Some(str), d |-> None]
    ELSE [do |-> "sleep", str |-> Some(str), d |-> d]

\* lines 102-116: the outcome of the parse decides
ParsedOutcome(str, retry_time) ==
    IF retry_time # None
    THEN SleepOrPanic(str, RateLimitSleep(retry_time[1]))
    ELSE [do |-> "return", str |-> Some(str), d |-> None]

RetryTimeOutcome(str) == ParsedOutcome(str, DurationString_from_str(str))

\* `if` in place of `else if`: a retry time that does not parse falls
\* through to the connection-reset check
CapsOutcome_FallThrough(e, caps) ==
    IF caps # None /\ RetryTimeOutcome(RetryTimeStr(caps[1])).do # "return"
    THEN RetryTimeOutcome(RetryTimeStr(caps[1]))
    ELSE IF CONN_RESET_PARSER(e)
         THEN [do |-> "sleep",
               str |-> IF caps # None THEN Some(RetryTimeStr(caps[1])) ELSE None,
               d |-> Some(ConnResetSleep)]
         ELSE [do |-> "return",
               str |-> IF caps # None THEN Some(RetryTimeStr(caps[1])) ELSE None,
               d |-> None]

\* lines 87-132: the rate-limit branch when the expression matches, else
\* the connection-reset branch, else false
CapsOutcome(e, caps) ==
    IF caps # None
    THEN RetryTimeOutcome(RetryTimeStr(caps[1]))
    ELSE IF CONN_RESET_PARSER(e)
         THEN [do |-> "sleep", str |-> None, d |-> Some(ConnResetSleep)]
         ELSE [do |-> "return", str |-> None, d |-> None]

\* What one call does up to its first suspension point or its return:
\* "sleep" (with the duration), "return" (with the value) or "panic".
Classify(e) == CapsOutcome(e, RETRY_TIME_PARSER(e))

\* a ceiling on the attempts inside the layer: from the second call of the
\* same error on, no retry
CheckRateLimit_Ceiling ==
    /\ pc = "ready"
    /\ \E c \in {IF attempt >= 2
                 THEN [do |-> "return", str |-> None, d |-> None]
                 ELSE Classify(error)} :
           /\ retry_time_str' = c.str
           /\ slept' = c.d
           /\ pc' = (IF c.do = "sleep" THEN "sleeping"
                     ELSE IF c.do = "return" THEN "returned" ELSE "panicked")
           /\ sleeps' = (IF c.do = "sleep" THEN sleeps + 1 ELSE sleeps)
           /\ ret' = (IF c.do = "return" THEN Some(FALSE) ELSE None)
    /\ UNCHANGED <<error, attempt, prev, chats, chatsAtEntry>>
    /\ UNCHANGED fvars

\* check_rate_limit(error) from its entry to the sleep, the return of false
\* or the panic of the unwrap
CheckRateLimit ==
    /\ pc = "ready"
    /\ \E c \in {Classify(error)} :
           /\ retry_time_str' = c.str
           /\ slept' = c.d
           /\ \/ /\ c.do = "sleep"
                 /\ pc' = "sleeping"
                 /\ sleeps' = sleeps + 1
                 /\ ret' = None
              \/ /\ c.do = "return"
                 /\ pc' = "returned"
                 /\ sleeps' = sleeps
                 /\ ret' = Some(FALSE)
              \/ /\ c.do = "panic"
                 /\ pc' = "panicked"
                 /\ sleeps' = sleeps
                 /\ ret' = None
    /\ UNCHANGED <<error, attempt, prev, chats, chatsAtEntry>>
    /\ UNCHANGED fvars

\* tokio::time::sleep(..).await completes; return true
SleepElapsed ==
    /\ pc = "sleeping"
    /\ pc' = "returned"
    /\ ret' = Some(TRUE)
    /\ UNCHANGED <<error, retry_time_str, slept, sleeps, attempt, prev, chats,
                   chatsAtEntry>>
    /\ UNCHANGED fvars

\* The caller, after the retry signal: it calls chat again, the backend
\* reports the same error, and the caller hands it to check_rate_limit.
Reinvoke ==
    /\ pc = "returned"
    /\ ret = Some(TRUE)
    /\ attempt < MaxCalls
    /\ pc' = "ready"
    /\ attempt' = attempt + 1
    /\ prev' = <<ret[1], slept>>
    /\ chats' = chats + 1
    /\ chatsAtEntry' = chats + 1
    /\ retry_time_str' = None
    /\ slept' = None
    /\ ret' = None
    /\ sleeps' = 0
    /\ UNCHANGED error
    /\ UNCHANGED fvars

----------------------------------------------------------------------------
(* factory and factory_embedder                                            *)

NotSupported == <<"Err", "not supported">>

\* Client::new of the selected backend: Ok(Box::new(client)), or the error
\* that `?` propagates
Construct(client, new_ok) ==
    IF new_ok THEN <<"Ok", client>> ELSE <<"Err", "new">>

\* factory_body!: the match on the name; an arm under #[cfg(feature = ..)]
\* exists only when the feature is enabled
factory_body(name, feats, new_ok) ==
    CASE name = "ollama" /\ "ollama" \in feats ->
            [res |-> Construct("OllamaClient", new_ok), new |-> "OllamaClient"]
      [] name = "openai" /\ "openai" \in feats ->
            [res |-> Construct("OpenAIClient", new_ok), new |-> "OpenAIClient"]
      [] name = "fireworks" /\ "fireworks" \in feats ->
            [res |-> Construct("FireworksClient", new_ok), new |-> "FireworksClient"]
      [] name = "hf" ->
            [res |-> Construct("HuggingfaceMessageClient", new_ok),
             new |-> "HuggingfaceMessageClient"]
      [] name = "groq" /\ "groq" \in feats ->
            [res |-> Construct("GroqClient", new_ok), new |-> "GroqClient"]
      [] OTHER -> [res |-> NotSupported, new |-> "none"]

factory(name, feats, new_ok) == factory_body(name, feats, new_ok)

\* a copy of the match whose last arm falls back to a default backend
factory_embedder_Default(name, feats, new_ok) ==
    IF factory_body(name, feats, new_ok).res = NotSupported
    THEN factory_body("hf", feats, new_ok)
    ELSE factory_body(name, feats, new_ok)

factory_embedder(name, feats, new_ok) == factory_body(name, feats, new_ok)

\* names the callers may pass
Names == {"ollama", "openai", "fireworks", "hf", "groq",
          "unknown-backend", "Ollama", "OPENAI", "hf ", ""}

\* the feature sets the crate builds with: the "hf" arm is not under a cfg
\* while its module is, so every build has the feature "hf"
FeatureSets == {{"hf"} \cup S : S \in SUBSET {"ollama", "openai", "fireworks", "groq"}}

Factory ==
    \E name \in Names, new_ok \in BOOLEAN :
        LET r == factory(name, features, new_ok)
        IN  /\ fname' = name
            /\ fkind' = "factory"
            /\ fres' = r.res
            /\ fnew' = r.new
            /\ UNCHANGED features
            /\ UNCHANGED rlvars

FactoryEmbedder ==
    \E name \in Names, new_ok \in BOOLEAN :
        LET r == factory_embedder(name, features, new_ok)
        IN  /\ fname' = name
            /\ fkind' = "factory_embedder"
            /\ fres' = r.res
            /\ fnew' = r.new
            /\ UNCHANGED features
            /\ UNCHANGED rlvars

----------------------------------------------------------------------------
(* Error texts                                                             *)

\* "... try again in <d>. Visit"
RateLimitPhrase(d) == TRY_AGAIN_IN \o d \o DOT_VISIT

D_3m2_838s == <<"3","m","2",".","8","3","8","s">>
D_1_5s == <<"1",".","5","s">>
D_2_5m == <<"2",".","5","m">>
D_5s == <<"5","s">>
D_u64max_s == <<"1","8","4","4","6","7","4","4","0","7","3","7","0","9","5","5","1","6","1","5","s">>
D_soon == <<"s","o","o","n">>

StatedDurations == {D_3m2_838s, D_1_5s, D_2_5m, D_5s, D_u64max_s, D_soon}

Pieces ==
    {<<"c">>, <<"C">>, <<NL>>, TRY_AGAIN_IN, DOT_VISIT, ONNECTION_RESET}
        \cup {RateLimitPhrase(d) : d \in StatedDurations}

RECURSIVE Concat(_)
Concat(ps) == IF ps = <<>> THEN <<>> ELSE Head(ps) \o Concat(Tail(ps))

Texts == {Concat(ps) : ps \in UNION {[1..n -> Pieces] : n \in 0..MaxPieces}}

----------------------------------------------------------------------------
(* Specifications                                                          *)

\* A chat call has failed with `error`, and the caller is about to hand the
\* error text to check_rate_limit.
Init ==
    /\ error \in Texts
    /\ pc = "ready"
    /\ retry_time_str = None
    /\ slept = None
    /\ ret = None
    /\ sleeps = 0
    /\ attempt = 1
    /\ prev = None
    /\ chats = 1
    /\ chatsAtEntry = 1
    /\ features = {"hf", "ollama", "openai", "fireworks", "groq"}
    /\ fname = ""
    /\ fkind = "none"
    /\ fres = None
    /\ fnew = "none"

Next == CheckRateLimit \/ SleepElapsed \/ Reinvoke

Spec == Init /\ [][Next]_vars

\* The crate is built with some set of features and no client exists yet.
InitFactory ==
    /\ features \in FeatureSets
    /\ fname = ""
    /\ fkind = "none"
    /\ fres = None
    /\ fnew = "none"
    /\ error = <<>>
    /\ pc = "idle"
    /\ retry_time_str = None
    /\ slept = None
    /\ ret = None
    /\ sleeps = 0
    /\ attempt = 0
    /\ prev = None
    /\ chats = 0
    /\ chatsAtEntry = 0

NextFactory == Factory \/ FactoryEmbedder

SpecFactory == InitFactory /\ [][NextFactory]_vars

----------------------------------------------------------------------------
(* Vocabulary of the claims: the patterns read off the text itself, without *)
(* the line splitting and the greedy choice of the model above             *)

NoNewline(e, a, b) == \A k \in a..b : e[k] # NL

\* <<i, j>>: "try again in " at i with a character before it on its line,
\* ". Visit" at j on the same line, at least one character in between
PatternPairs(e) ==
    LET tries  == {i \in 2..Len(e) : e[i - 1] # NL /\ IsAt(e, TRY_AGAIN_IN, i)}
        visits == {j \in 2..Len(e) : IsAt(e, DOT_VISIT, j)}
    IN  {p \in tries \X visits :
            p[2] >= p[1] + Len(TRY_AGAIN_IN) + 1 /\ NoNewline(e, p[1], p[2])}

\* the text matches the rate-limit pattern "...try again in <duration>. Visit..."
HasRateLimitPattern(e) == PatternPairs(e) # {}

\* the text matches the connection-reset pattern
HasConnResetPattern(e) ==
    \E i \in 2..Len(e) : e[i - 1] # NL /\ IsAt(e, ONNECTION_RESET, i)

\* the text contains "connection reset by peer" or "Connection reset by peer"
ContainsConnectionReset(e) ==
    \E i \in 1..Len(e) :
        \/ IsAt(e, <<"c">> \o ONNECTION_RESET, i)
        \/ IsAt(e, <<"C">> \o ONNECTION_RESET, i)

\* the call has ended, by a return or by a panic
Ended == pc \in {"returned", "panicked"}

Secs(n) == Duration(n, 0)

\* a duration below 2^31 ms, in milliseconds
Millis(d) == ToInt(d.secs) * 1000 + d.nanos \div 1000000

----------------------------------------------------------------------------
(* C1 *)

\* places where a line reads <non-empty prefix>try again in 3m2.838s. Visit
C1_Places(e) ==
    {i \in 2..Len(e) : e[i - 1] # NL /\ IsAt(e, RateLimitPhrase(D_3m2_838s), i)}

C1_Retries183 ==
    /\ pc = "returned"
    /\ ret = Some(TRUE)
    /\ retry_time_str = Some(<<"3","m","2","s">>)
    /\ slept = Some(Secs(<<1,8,3>>))

\* C1 as stated: whenever some line of the error text has the form
\* <non-empty prefix>try again in 3m2.838s. Visit<anything>, the call parses
\* 3 minutes 2 seconds, waits, and returns true.
C1_Original == (Ended /\ C1_Places(error) # {}) => C1_Retries183

\* i is such a place on the first line that matches the rate-limit pattern,
\* and no later "try again in " of that line is followed, after at least one
\* character, by ". Visit"
C1_Deciding(e, i) ==
    \A p \in PatternPairs(e) :
        /\ p[1] < i => NoNewline(e, p[1], i)
        /\ p[1] > i => ~NoNewline(e, i, p[1])

\* C1 amended: when the first line that matches the rate-limit pattern has
\* the form <non-empty prefix>try again in 3m2.838s. Visit<anything> and no
\* later "try again in " of that line is followed, after at least one
\* character, by ". Visit", the call hands "3m2s" to the parser, waits the
\* 3 minutes 2 seconds plus the 1000 ms margin, and returns true.
C1_Amended ==
    (Ended /\ \E i \in C1_Places(error) : C1_Deciding(error, i)) => C1_Retries183

\* such a text whose capture group runs on to a second ". Visit"
C1_Witness ==
    /\ C1_Retries183
    /\ \E i \in C1_Places(error) : C1_Deciding(error, i)
    /\ \E p \in PatternPairs(error) :
          p[2] > p[1] + Len(TRY_AGAIN_IN) + Len(D_3m2_838s)

----------------------------------------------------------------------------
(* C2 *)

C2_RetriesAfter5s ==
    /\ pc = "returned"
    /\ ret = Some(TRUE)
    /\ slept = Some(Secs(<<5>>))
    /\ sleeps = 1

\* C2 as stated: for every error text that contains "connection reset by
\* peer" or "Connection reset by peer", whatever else it contains, the call
\* waits exactly 5 seconds and returns true.
C2_Original == (Ended /\ ContainsConnectionReset(error)) => C2_RetriesAfter5s

\* C2 amended: for every error text that contains "connection reset by peer"
\* or "Connection reset by peer" and no line of which matches the rate-limit
\* pattern, the call waits exactly 5 seconds and returns true.
C2_Amended ==
    (Ended /\ ContainsConnectionReset(error) /\ ~HasRateLimitPattern(error))
        => C2_RetriesAfter5s

\* a connection reset in a text that also says "try again in ", without
\* the ". Visit" of the rate-limit pattern
C2_Witness ==
    /\ C2_RetriesAfter5s
    /\ ContainsConnectionReset(error)
    /\ \E i \in 1..Len(error) : IsAt(error, TRY_AGAIN_IN, i)

----------------------------------------------------------------------------
(* C3 *)

\* C3: for every error text that matches neither the rate-limit pattern nor
\* the connection-reset pattern, the call returns false and has not waited.
C3_NoRetry ==
    (pc # "ready" /\ ~HasRateLimitPattern(error) /\ ~HasConnResetPattern(error))
        => /\ pc = "returned"
           /\ ret = Some(FALSE)
           /\ slept = None
           /\ sleeps = 0

\* a text with both phrases, each without the character the pattern needs
\* before it
C3_Witness ==
    /\ pc = "returned"
    /\ ret = Some(FALSE)
    /\ ~HasRateLimitPattern(error) /\ ~HasConnResetPattern(error)
    /\ \E i \in 1..Len(error) : IsAt(error, ONNECTION_RESET, i)
    /\ \E i \in 1..Len(error) : IsAt(error, RateLimitPhrase(D_5s), i)

----------------------------------------------------------------------------
(* C4 *)

\* "rate limit exceeded, try again in 1.5s. Visit https://...", with one
\* character standing for the words before the phrase
C4_Text == <<"c">> \o RateLimitPhrase(D_1_5s)

\* C4 as stated: for that error text the call waits the stated 1.5 seconds
\* plus 1000 ms, 2.5 seconds (here: anything within half a second of it,
\* 2 seconds excluded), and returns true.
C4_Original ==
    (Ended /\ error = C4_Text)
        => /\ pc = "returned" /\ ret = Some(TRUE)
           /\ slept # None
           /\ Millis(slept[1]) > 2000 /\ Millis(slept[1]) < 3000

\* C4 amended: whenever the call returns true for a rate-limit error, it has
\* waited the duration parsed from the captured text (cut at its first '.')
\* plus 1000 ms; for the error text "... try again in 1.5s. Visit ..." that
\* is 1 s + 1000 ms = 2 seconds.
C4_Amended ==
    /\ (pc = "returned" /\ ret = Some(TRUE) /\ retry_time_str # None)
          => \A parsed \in {DurationString_from_str(retry_time_str[1])} :
                /\ parsed # None
                /\ slept = Duration_checked_add(parsed[1], Duration(<<1>>, 0))
    /\ (Ended /\ error = C4_Text)
          => /\ pc = "returned" /\ ret = Some(TRUE)
             /\ retry_time_str = Some(<<"1","s">>)
             /\ slept = Some(Secs(<<2>>))

C4_Witness ==
    /\ error = C4_Text
    /\ pc = "returned"
    /\ ret = Some(TRUE)
    /\ slept = Some(Secs(<<2>>))

----------------------------------------------------------------------------
(* C5 *)

\* C5: when the error text matches the rate-limit pattern and the captured
\* duration, cut at its first '.', does not parse, the call returns false
\* and has not waited, also when the text matches the connection-reset
\* pattern too.
C5_ParseFailure ==
    (pc # "ready" /\ HasRateLimitPattern(error))
        => /\ retry_time_str # None
           /\ DurationString_from_str(retry_time_str[1]) = None
                 => /\ pc = "returned"
                    /\ ret = Some(FALSE)
                    /\ slept = None
                    /\ sleeps = 0

\* an unparsable retry time in a text that also reports a connection reset
C5_Witness ==
    /\ pc = "returned"
    /\ ret = Some(FALSE)
    /\ HasRateLimitPattern(error)
    /\ HasConnResetPattern(error)
    /\ retry_time_str # None
    /\ DurationString_from_str(retry_time_str[1]) = None

----------------------------------------------------------------------------
(* C6 *)

RegisteredNames == {"ollama", "openai", "fireworks", "hf", "groq"}

\* C6: factory and factory_embedder, called with a name that is not one of
\* the registered names, return the "not supported" error and run no
\* client's constructor; and both reject exactly the same names, those that
\* are not registered or whose feature is not built in.
C6_Unsupported ==
    fkind # "none"
        => /\ fname \notin RegisteredNames => (fres = NotSupported /\ fnew = "none")
           /\ fres = NotSupported <=> fname \notin (RegisteredNames \cap features)
           /\ fres = NotSupported => fnew = "none"

C6_Witness ==
    /\ fkind = "factory_embedder"
    /\ fname = "unknown-backend"
    /\ fres = NotSupported
    /\ fnew = "none"

----------------------------------------------------------------------------
(* C7 *)

\* C7: one call of check_rate_limit sleeps at most once and makes no chat
\* call, and when the caller hands it the same error text again it gives
\* the same signal after the same wait as the call before: the retry
\* signal, whatever the number of the call.
C7_NoLoopNoMemory ==
    /\ sleeps <= 1
    /\ chats = chatsAtEntry
    /\ (pc = "returned" /\ prev # None)
          => /\ ret = Some(prev[1])
             /\ slept = prev[2]
             /\ ret = Some(TRUE)

C7_Witness ==
    /\ pc = "returned"
    /\ attempt = MaxCalls
    /\ prev # None
    /\ ret = Some(TRUE)
    /\ slept = Some(Secs(<<5>>))

----------------------------------------------------------------------------
(* C8 *)

RECURSIVE C8_BeforeFirstDot(_)
C8_BeforeFirstDot(str) ==
    IF str = <<>> \/ Head(str) = "." THEN <<>>
    ELSE <<Head(str)>> \o C8_BeforeFirstDot(Tail(str))

C8_Dots(str) == {i \in 1..Len(str) : str[i] = "."}

C8_Holds(cap) ==
    (cap # None /\ C8_Dots(cap[1]) # {})
        => \A str \in {C8_BeforeFirstDot(cap[1]) \o <<"s">>} :
              /\ retry_time_str = Some(str)
              /\ pc \in {"sleeping", "returned"} /\ slept # None
                    => slept = RateLimitSleep(DurationString_from_str(str)[1])

\* C8: when the captured duration contains a '.', the string handed to the
\* parser is the text before the first '.' followed by 's', and the wait is
\* the one that string alone gives: nothing after the first '.' affects it.
C8_TruncateAtFirstDot ==
    pc # "ready" => \A cap \in {RETRY_TIME_PARSER(error)} : C8_Holds(cap)

C8_TwoDots(cap) == cap # None /\ Cardinality(C8_Dots(cap[1])) >= 2

\* a capture group with more than one '.'
C8_Witness ==
    /\ pc = "returned"
    /\ ret = Some(TRUE)
    /\ \E cap \in {RETRY_TIME_PARSER(error)} : C8_TwoDots(cap)

----------------------------------------------------------------------------
(* C9 *)

\* C9 as stated: for every error text, check_rate_limit ends with the retry
\* or the no-retry signal; no input makes it abort.
C9_NeverAborts == pc # "panicked"

----------------------------------------------------------------------------
(* C10 *)

\* the duration a captured text states, in milliseconds, decimals included
C10_StatedMillis(cap) ==
    CASE cap = D_3m2_838s -> 182838
      [] cap = D_1_5s -> 1500
      [] cap = D_2_5m -> 150000
      [] cap = D_5s -> 5000

C10_Covers(cap) ==
    (cap # None /\ cap[1] \in {D_3m2_838s, D_1_5s, D_2_5m, D_5s})
        => Millis(slept[1]) >= C10_StatedMillis(cap[1])

\* C10 as stated: whenever the call returns true for a rate-limit error, it
\* has waited at least the duration the error text states, also when the
\* decimals are on a unit other than seconds, as in "2.5m".
C10_WaitCoversStated ==
    (pc = "returned" /\ ret = Some(TRUE) /\ retry_time_str # None)
        => \A cap \in {RETRY_TIME_PARSER(error)} : C10_Covers(cap)

====
